---- MODULE Spec2Model ----
(***************************************************************************)
(* Token lifecycle manager of mcp-fitbit (auth.ts): the module-level state *)
(* accessToken / tokenData / oauthServer, the token file, and the three    *)
(* entry points initializeAuth(), getAccessToken() and                     *)
(* startAuthorizationFlow() with the /callback handler of the temporary    *)
(* listener.  Every await of the source is a suspension point: an          *)
(* operation is a sequence of atomic steps, one per synchronous stretch,   *)
(* and steps of different invocations interleave as on the Node event loop.*)
(* Time is counted in token lifetimes: a token issued at t expires at t+1. *)
(***************************************************************************)
EXTENDS Integers, FiniteSets, Sequences, TLC

\* ---------------------------------------------------------------- bounds
MaxCalls == 2      \* asynchronous invocations that may be suspended at once
MaxReqs == 2       \* token-endpoint requests (refresh, exchange) per run
MaxServers == 2    \* listeners created per run
MaxTime == 3       \* the clock runs from 1 to MaxTime

\* ------------------------------------------------------------ values
NULL == 0                      \* null: no access token, no listener
NullData == [null |-> TRUE]    \* tokenData = null
NoExp == [kind |-> "absent", t |-> 0]   \* record without expires_at

Calls == 1..MaxCalls
Servers == 1..MaxServers
Tokens == 1..(MaxReqs + 1)     \* token 1 is the one the file starts with

\* A FitbitTokenData value.  access_token = NULL: the field is missing.
\* expires_at is a Date object in a token that comes from the OAuth client,
\* and an ISO string in one that comes from JSON.parse.
Rec(a, r, e) == [access_token |-> a, refresh_token |-> r, expires_at |-> e]

\* The token file: missing, not parsable, or the JSON text of a record.
NoFile == [kind |-> "missing", rec |-> NullData]
BadFile == [kind |-> "garbage", rec |-> NullData]
JsonFile(rec) == [kind |-> "json", rec |-> rec]

\* JSON.stringify(tokenData, null, 2): a Date is written as its ISO string.
StringifyKeepsDate(rec) == JsonFile(rec)
Stringify(rec) ==
  JsonFile([rec EXCEPT !.expires_at =
              IF @.kind = "date" THEN [kind |-> "string", t |-> @.t] ELSE @])

\* JSON.parse(data): throws on text that is no JSON.
ParseOk(file) == file.kind = "json"
Parse(file) == file.rec

\* `tokenData.expires_at && new Date(tokenData.expires_at) < new Date()`
IsExpired(rec, t) == rec.expires_at.kind # "absent" /\ rec.expires_at.t < t

\* accessTokenObj.expired() of the OAuth client: expires_at - now <= 0;
\* a token without expiry information never expires.
ObjExpiredOff(rec, t) == rec.expires_at.kind # "absent" /\ rec.expires_at.t + 1 < t
ObjExpired(rec, t) == rec.expires_at.kind # "absent" /\ rec.expires_at.t <= t

\* Lines 249 and 256: refresh when both expiry checks say expired.
NeedsRefreshAlways(rec, t) == rec.expires_at.kind # "absent"
NeedsRefresh(rec, t) == IsExpired(rec, t) /\ ObjExpired(rec, t)

\* The token of a successful exchange or refresh, as the OAuth client hands
\* it over at time t.
NewToken(n, t) == Rec(n, n, [kind |-> "date", t |-> t + 1])

VARIABLES
  accessToken,   \* let accessToken: string | null
  tokenData,     \* let tokenData: FitbitTokenData | null
  oauthServer,   \* let oauthServer: http.Server | null
  tokenFile,     \* contents of TOKEN_FILE_PATH
  configured,    \* fitbitConfig.client.id and .secret are both set
  srv,           \* the listeners created so far
  browserOpened, \* open(authUrl) has been attempted
  calls,         \* the suspended invocations and their locals
  now,           \* the clock
  netUp,         \* the token endpoint can be reached
  revoked,       \* refresh tokens the provider no longer accepts
  issued,        \* last token the provider issued
  reqs,          \* token-endpoint requests started so far
  termFailed,    \* a refresh failed terminally and no exchange succeeded since
  ev             \* what the last step did (observation only)

vars == <<accessToken, tokenData, oauthServer, tokenFile, configured, srv,
          browserOpened, calls, now, netUp, revoked, issued, reqs,
          termFailed, ev>>

tokenVars == <<accessToken, tokenData, tokenFile>>
envVars == <<configured, now, netUp, revoked>>

\* ------------------------------------------------------------ locals
Idle == [op |-> "idle", pc |-> "idle", rt |-> NULL, out |-> "none",
         tok |-> NULL, rec |-> NullData, srv |-> NULL, found |-> FALSE,
         good |-> FALSE, se |-> FALSE, nref |-> 0]

NoServer == [state |-> "none", clears |-> FALSE, handled |-> 0]

\* op: what happened; ret: the value returned; status: the HTTP status sent;
\* nref: refresh requests the returning call issued; se: the call found the
\* record expired; tok: the token the call was given; wrote: the save wrote
\* the file; out: how the call's request ended; who: the listener that
\* received the request; load: what initializeAuth got from the file
\* ("null", "record", or "none" for every other step).
Event(op, ret, status, nref, se, tok, wrote, out, who) ==
  [op |-> op, ret |-> ret, status |-> status, nref |-> nref,
   se |-> se, tok |-> tok, wrote |-> wrote, out |-> out, who |-> who,
   load |-> "none"]
Ev0(op) == Event(op, NULL, 0, 0, FALSE, NULL, FALSE, "none", NULL)
\* Steps that neither return to a caller nor answer a request.
Quiet == Ev0("quiet")

\* A new invocation takes the lowest free slot.
FreeSlot(c) == calls[c].op = "idle" /\ \A d \in Calls : d < c => calls[d].op # "idle"

\* process.nextTick work (the outcome of listen()) runs before any I/O
\* completion is delivered.
NoTickPending == \A s \in Servers : srv[s].state # "binding"

\* ---------------------------------------------------------------- Init
InitFiles ==
  {NoFile, BadFile,
   JsonFile(Rec(1, 1, [kind |-> "string", t |-> 0])),
   JsonFile(Rec(1, 1, [kind |-> "string", t |-> 2])),
   JsonFile(Rec(1, 1, NoExp)),
   JsonFile(Rec(NULL, 1, [kind |-> "string", t |-> 0]))}

Init ==
  /\ accessToken = NULL
  /\ tokenData = NullData
  /\ oauthServer = NULL
  /\ tokenFile \in InitFiles
  /\ configured \in BOOLEAN
  /\ srv = [s \in Servers |-> NoServer]
  /\ browserOpened = FALSE
  /\ calls = [c \in Calls |-> Idle]
  /\ now = 1
  /\ netUp = TRUE
  /\ revoked = {}
  /\ issued = 1
  /\ reqs = 0
  /\ termFailed = FALSE
  /\ ev = Ev0("none")

\* ------------------------------------------------------- getAccessToken
\* Lines 242-257 and 274: the synchronous stretch up to `await refresh()`.
GetStart(c) ==
  /\ FreeSlot(c)
  /\ UNCHANGED <<tokenVars, oauthServer, srv, browserOpened, envVars, issued,
                 termFailed>>
  /\ IF tokenData = NullData \/ accessToken = NULL
     THEN /\ ev' = Ev0("getReturn")
          /\ UNCHANGED <<calls, reqs>>
     ELSE IF NeedsRefresh(tokenData, now)
     THEN /\ reqs < MaxReqs
          /\ reqs' = reqs + 1
          /\ calls' = [calls EXCEPT ![c] =
               [Idle EXCEPT !.op = "get", !.pc = "refreshing",
                            !.rt = tokenData.refresh_token,
                            !.se = TRUE, !.nref = 1]]
          /\ ev' = Ev0("getRefresh")
     ELSE /\ ev' = Event("getReturn", accessToken, 0, 0,
                         IsExpired(tokenData, now), NULL, FALSE, "none", NULL)
          /\ UNCHANGED <<calls, reqs>>

\* The provider answers a refresh request (of getAccessToken or of
\* initializeAuth): unreachable endpoint -> network-level error; refresh
\* token no longer accepted -> rejection; otherwise a new token.
ServeRefresh(c) ==
  /\ calls[c].pc = "refreshing" /\ calls[c].out = "none"
  /\ UNCHANGED <<tokenVars, oauthServer, srv, browserOpened, envVars, reqs,
                 termFailed>>
  /\ IF ~netUp
     THEN calls' = [calls EXCEPT ![c].out = "transient"] /\ UNCHANGED issued
     ELSE IF calls[c].rt \in revoked
     THEN calls' = [calls EXCEPT ![c].out = "terminal"] /\ UNCHANGED issued
     ELSE /\ issued' = issued + 1
          /\ calls' = [calls EXCEPT ![c].out = "ok", ![c].tok = issued + 1]
  /\ ev' = Quiet

\* Lines 257-262 (refresh resolved) and 266-270 (refresh rejected: the catch
\* does not look at the kind of error).
GetRefreshDoneNoCatch(c) ==
  /\ calls[c].op = "get" /\ calls[c].pc = "refreshing" /\ calls[c].out = "ok"
  /\ NoTickPending
  /\ UNCHANGED <<oauthServer, tokenFile, srv, browserOpened, envVars, issued, reqs>>
  /\ accessToken' = calls[c].tok
  /\ tokenData' = NewToken(calls[c].tok, now)
  /\ calls' = [calls EXCEPT ![c].pc = "saving", ![c].rec = tokenData']
  /\ ev' = Quiet
  /\ UNCHANGED termFailed
GetRefreshDone(c) ==
  /\ calls[c].op = "get" /\ calls[c].pc = "refreshing" /\ calls[c].out # "none"
  /\ NoTickPending
  /\ UNCHANGED <<oauthServer, tokenFile, srv, browserOpened, envVars, issued, reqs>>
  /\ IF calls[c].out = "ok"
     THEN /\ accessToken' = calls[c].tok
          /\ tokenData' = NewToken(calls[c].tok, now)
          /\ calls' = [calls EXCEPT ![c].pc = "saving", ![c].rec = tokenData']
          /\ ev' = Quiet
          /\ UNCHANGED termFailed
     ELSE /\ accessToken' = NULL
          /\ tokenData' = NullData
          /\ calls' = [calls EXCEPT ![c] = Idle]
          /\ termFailed' = (termFailed \/ calls[c].out = "terminal")
          /\ ev' = Event("getReturn", NULL, 0, calls[c].nref, calls[c].se,
                         NULL, FALSE, calls[c].out, NULL)

\* saveTokenToFile (lines 73-84): the write succeeds or its error is logged.
SaveResultCurrent(rec, ok) ==
  IF ok /\ tokenData # NullData THEN Stringify(tokenData) ELSE tokenFile
SaveResult(rec, ok) == IF ok THEN Stringify(rec) ELSE tokenFile

\* Lines 262-264: the save is done; `return accessToken` reads the module
\* variable as it is now.
GetSaved(c) ==
  /\ calls[c].op = "get" /\ calls[c].pc = "saving"
  /\ NoTickPending
  /\ UNCHANGED <<accessToken, tokenData, oauthServer, srv, browserOpened,
                 envVars, issued, reqs, termFailed>>
  /\ \E ok \in BOOLEAN :
       /\ tokenFile' = SaveResult(calls[c].rec, ok)
       /\ ev' = Event("getReturn", accessToken, 0, calls[c].nref, calls[c].se,
                      calls[c].tok, ok, "ok", NULL)
  /\ calls' = [calls EXCEPT ![c] = Idle]

\* ------------------------------------------------------- initializeAuth
\* Lines 281-286 and 92-97: existsSync is evaluated at once, the read and
\* the rest run after the await.  The request the call may issue is counted
\* from here and given back when none is issued.
InitStart(c) ==
  /\ FreeSlot(c)
  /\ reqs < MaxReqs
  /\ reqs' = reqs + 1
  /\ calls' = [calls EXCEPT ![c] =
       [Idle EXCEPT !.op = "init", !.pc = "loading",
                    !.found = (tokenFile.kind # "missing")]]
  /\ ev' = Quiet
  /\ UNCHANGED <<tokenVars, oauthServer, srv, browserOpened, envVars, issued,
                 termFailed>>

\* loadTokenFromFile (lines 90-105): null when the file was not there, when
\* the read fails or when the text does not parse.
LoadResult(found, readOk) ==
  IF found /\ readOk /\ ParseOk(tokenFile) THEN Parse(tokenFile) ELSE NullData

\* Lines 286-301 and 317-321: the loaded value is assigned to tokenData
\* before it is looked at.
InitLoaded(c) ==
  /\ calls[c].op = "init" /\ calls[c].pc = "loading"
  /\ NoTickPending
  /\ UNCHANGED <<oauthServer, tokenFile, srv, browserOpened, envVars, issued,
                 termFailed>>
  /\ \E readOk \in BOOLEAN :
       LET loaded == LoadResult(calls[c].found, readOk) IN
       /\ tokenData' = loaded
       /\ IF loaded # NullData /\ loaded.access_token # NULL
          THEN /\ accessToken' = loaded.access_token
               /\ IF IsExpired(loaded, now) /\ ObjExpired(loaded, now)
                  THEN /\ calls' = [calls EXCEPT ![c].pc = "refreshing",
                                                 ![c].rt = loaded.refresh_token,
                                                 ![c].se = TRUE, ![c].nref = 1]
                       /\ ev' = Quiet
                       /\ UNCHANGED reqs
                  ELSE /\ calls' = [calls EXCEPT ![c] = Idle]
                       /\ ev' = [Ev0("initDone") EXCEPT !.load = "record"]
                       /\ reqs' = reqs - 1
          ELSE /\ UNCHANGED accessToken
               /\ calls' = [calls EXCEPT ![c] = Idle]
               /\ ev' = [Ev0("initDone") EXCEPT
                           !.load = IF loaded = NullData THEN "null" ELSE "record"]
               /\ reqs' = reqs - 1

\* Lines 301-303 (refresh resolved) and 311-315 (refresh rejected).
InitRefreshDone(c) ==
  /\ calls[c].op = "init" /\ calls[c].pc = "refreshing" /\ calls[c].out # "none"
  /\ NoTickPending
  /\ UNCHANGED <<oauthServer, tokenFile, srv, browserOpened, envVars, issued, reqs>>
  /\ IF calls[c].out = "ok"
     THEN /\ accessToken' = calls[c].tok
          /\ tokenData' = NewToken(calls[c].tok, now)
          /\ calls' = [calls EXCEPT ![c].pc = "saving", ![c].rec = tokenData']
          /\ ev' = Quiet
          /\ UNCHANGED termFailed
     ELSE /\ accessToken' = NULL
          /\ tokenData' = NullData
          /\ calls' = [calls EXCEPT ![c] = Idle]
          /\ termFailed' = (termFailed \/ calls[c].out = "terminal")
          /\ ev' = [Event("initDone", NULL, 0, calls[c].nref, calls[c].se,
                          NULL, FALSE, calls[c].out, NULL) EXCEPT !.load = "record"]

\* Lines 306-309: the save is done and initializeAuth returns.
InitSaved(c) ==
  /\ calls[c].op = "init" /\ calls[c].pc = "saving"
  /\ NoTickPending
  /\ UNCHANGED <<accessToken, tokenData, oauthServer, srv, browserOpened,
                 envVars, issued, reqs, termFailed>>
  /\ \E ok \in BOOLEAN :
       /\ tokenFile' = SaveResult(calls[c].rec, ok)
       /\ ev' = [Event("initDone", NULL, 0, calls[c].nref, calls[c].se,
                       calls[c].tok, ok, "ok", NULL) EXCEPT !.load = "record"]
  /\ calls' = [calls EXCEPT ![c] = Idle]

\* ------------------------------------------------ startAuthorizationFlow
\* `if (oauthServer)` (line 116).
AlreadyRunningOff == FALSE
AlreadyRunning == oauthServer # NULL

\* The next listener object to be created.
NextServer(s) == srv[s].state = "none" /\ \A u \in Servers : u < s => srv[u].state # "none"

\* Lines 114-126, 128-206 and 231: synchronous; app.listen() returns the
\* server, whose bind outcome is delivered on the next tick.
StartAuthorizationFlow ==
  /\ UNCHANGED <<tokenVars, browserOpened, calls, envVars, issued, reqs, termFailed>>
  /\ ev' = Ev0("start")
  /\ IF AlreadyRunning \/ ~configured
     THEN UNCHANGED <<oauthServer, srv>>
     ELSE \E s \in Servers :
            /\ NextServer(s)
            /\ srv' = [srv EXCEPT ![s].state = "binding"]
            /\ oauthServer' = s

\* Lines 206-228: the listen callback; the browser is opened best-effort.
\* The port is free only when no other listener of this process holds it.
BindOk(s) ==
  /\ srv[s].state = "binding"
  /\ \A u \in Servers : srv[u].state # "listening"
  /\ srv' = [srv EXCEPT ![s].state = "listening"]
  /\ browserOpened' = TRUE
  /\ ev' = Quiet
  /\ UNCHANGED <<tokenVars, oauthServer, calls, envVars, issued, reqs, termFailed>>

\* Lines 231-234: the 'error' handler clears the module variable.
BindFail(s) ==
  /\ srv[s].state = "binding"
  /\ srv' = [srv EXCEPT ![s].state = "failed"]
  /\ oauthServer' = NULL
  /\ ev' = Quiet
  /\ UNCHANGED <<tokenVars, browserOpened, calls, envVars, issued, reqs, termFailed>>

\* server.close(cb): the listening socket is given up at once, cb runs on
\* the 'close' event.  clearing: cb is the one that sets oauthServer = null.
CloseServerForgets(sv, s, clearing) == [sv EXCEPT ![s].clears = @ \/ clearing]
CloseServer(sv, s, clearing) ==
  [sv EXCEPT ![s].state = "closing", ![s].clears = @ \/ clearing]

\* Lines 195-201: the finally block closes whatever oauthServer refers to.
TeardownSkips(sv) == sv
Teardown(sv) == IF oauthServer # NULL THEN CloseServer(sv, oauthServer, TRUE) ELSE sv

\* The request counters of a listener saturate at two.
Bump(n) == IF n < 2 THEN n + 1 ELSE n

\* Lines 144-158: /callback without a code.
CallbackNoCode(s) ==
  /\ srv[s].state = "listening"
  /\ NoTickPending
  /\ LET sv == [srv EXCEPT ![s].handled = Bump(@)] IN
     IF oauthServer # NULL
     THEN srv' = CloseServer(sv, oauthServer, FALSE) /\ oauthServer' = NULL
     ELSE srv' = sv /\ UNCHANGED oauthServer
  /\ ev' = Event("cbNoCode", NULL, 400, 0, FALSE, NULL, FALSE, "none", s)
  /\ UNCHANGED <<tokenVars, browserOpened, calls, envVars, issued, reqs, termFailed>>

\* Lines 144-165: /callback with a code, up to `await getToken()`.  good:
\* the provider will accept the code.
CallbackCode(c, s, good) ==
  /\ srv[s].state = "listening"
  /\ NoTickPending
  /\ FreeSlot(c)
  /\ reqs < MaxReqs
  /\ reqs' = reqs + 1
  /\ calls' = [calls EXCEPT ![c] =
       [Idle EXCEPT !.op = "cb", !.pc = "exchanging", !.srv = s, !.good = good]]
  /\ srv' = [srv EXCEPT ![s].handled = Bump(@)]
  /\ ev' = Quiet
  /\ UNCHANGED <<tokenVars, oauthServer, browserOpened, envVars, issued, termFailed>>

\* The provider answers a code exchange.
ServeExchange(c) ==
  /\ calls[c].pc = "exchanging" /\ calls[c].out = "none"
  /\ UNCHANGED <<tokenVars, oauthServer, srv, browserOpened, envVars, reqs,
                 termFailed>>
  /\ IF ~netUp
     THEN calls' = [calls EXCEPT ![c].out = "transient"] /\ UNCHANGED issued
     ELSE IF ~calls[c].good
     THEN calls' = [calls EXCEPT ![c].out = "terminal"] /\ UNCHANGED issued
     ELSE /\ issued' = issued + 1
          /\ calls' = [calls EXCEPT ![c].out = "ok", ![c].tok = issued + 1]
  /\ ev' = Quiet

\* Lines 179-201: the exchange was rejected: 500, then the finally block.
\* The token state is not touched.
ExchangeRejectedClears(c) ==
  /\ srv' = Teardown(srv)
  /\ calls' = [calls EXCEPT ![c] = Idle]
  /\ ev' = Event("cbDone", NULL, 500, 0, FALSE, NULL, FALSE, calls[c].out, calls[c].srv)
  /\ accessToken' = NULL /\ tokenData' = NullData
  /\ UNCHANGED termFailed
ExchangeRejected(c) ==
  /\ srv' = Teardown(srv)
  /\ calls' = [calls EXCEPT ![c] = Idle]
  /\ ev' = Event("cbDone", NULL, 500, 0, FALSE, NULL, FALSE, calls[c].out, calls[c].srv)
  /\ UNCHANGED <<accessToken, tokenData, termFailed>>

\* Lines 165-172 (exchange resolved) and 179-201 (exchange rejected).
CbExchangeDone(c) ==
  /\ calls[c].op = "cb" /\ calls[c].pc = "exchanging" /\ calls[c].out # "none"
  /\ NoTickPending
  /\ UNCHANGED <<oauthServer, tokenFile, browserOpened, envVars, issued, reqs>>
  /\ IF calls[c].out = "ok"
     THEN /\ accessToken' = calls[c].tok
          /\ tokenData' = NewToken(calls[c].tok, now)
          /\ calls' = [calls EXCEPT ![c].pc = "saving", ![c].rec = tokenData']
          /\ termFailed' = FALSE
          /\ ev' = Quiet
          /\ UNCHANGED srv
     ELSE ExchangeRejected(c)

\* Lines 172-178 and 193-201: the save is done, 200, then the finally block.
CbSaved(c) ==
  /\ calls[c].op = "cb" /\ calls[c].pc = "saving"
  /\ NoTickPending
  /\ \E ok \in BOOLEAN :
       /\ tokenFile' = SaveResult(calls[c].rec, ok)
       /\ ev' = Event("cbDone", NULL, 200, 0, FALSE, calls[c].tok, ok, "ok", calls[c].srv)
  /\ srv' = Teardown(srv)
  /\ calls' = [calls EXCEPT ![c] = Idle]
  /\ UNCHANGED <<accessToken, tokenData, oauthServer, browserOpened, envVars,
                 issued, reqs, termFailed>>

\* The 'close' event of a listener: its close callbacks run (lines 152-154
\* log only, lines 197-200 set oauthServer = null).
CloseDone(s) ==
  /\ srv[s].state = "closing"
  /\ srv' = [srv EXCEPT ![s].state = "closed", ![s].clears = FALSE]
  /\ oauthServer' = IF srv[s].clears THEN NULL ELSE oauthServer
  /\ ev' = Quiet
  /\ UNCHANGED <<tokenVars, browserOpened, calls, envVars, issued, reqs, termFailed>>

\* ----------------------------------------------------------- environment
Tick ==
  /\ now < MaxTime
  /\ now' = now + 1
  /\ ev' = Quiet
  /\ UNCHANGED <<tokenVars, oauthServer, srv, browserOpened, calls, configured,
                 netUp, revoked, issued, reqs, termFailed>>

\* A request is on its way to the token endpoint.
Pending(c) == calls[c].pc \in {"refreshing", "exchanging"} /\ calls[c].out = "none"

\* The token endpoint becomes unreachable, or reachable again.  Only the
\* requests see it, so it is left alone while none is on its way.
NetChange ==
  /\ \E c \in Calls : Pending(c)
  /\ netUp' = ~netUp
  /\ ev' = Quiet
  /\ UNCHANGED <<tokenVars, oauthServer, srv, browserOpened, calls, configured,
                 now, revoked, issued, reqs, termFailed>>

\* The provider stops accepting the refresh token of a request on its way.
Revoke(c) ==
  /\ Pending(c) /\ calls[c].pc = "refreshing"
  /\ calls[c].rt \notin revoked
  /\ revoked' = revoked \cup {calls[c].rt}
  /\ ev' = Quiet
  /\ UNCHANGED <<tokenVars, oauthServer, srv, browserOpened, calls, configured,
                 now, netUp, issued, reqs, termFailed>>

\* ------------------------------------------------------------------ Next
Next ==
  \/ \E c \in Calls : GetStart(c)
  \/ \E c \in Calls : ServeRefresh(c)
  \/ \E c \in Calls : GetRefreshDone(c)
  \/ \E c \in Calls : GetSaved(c)
  \/ \E c \in Calls : InitStart(c)
  \/ \E c \in Calls : InitLoaded(c)
  \/ \E c \in Calls : InitRefreshDone(c)
  \/ \E c \in Calls : InitSaved(c)
  \/ StartAuthorizationFlow
  \/ \E s \in Servers : BindOk(s)
  \/ \E s \in Servers : BindFail(s)
  \/ \E s \in Servers : CallbackNoCode(s)
  \/ \E c \in Calls, s \in Servers, good \in BOOLEAN : CallbackCode(c, s, good)
  \/ \E c \in Calls : ServeExchange(c)
  \/ \E c \in Calls : CbExchangeDone(c)
  \/ \E c \in Calls : CbSaved(c)
  \/ \E s \in Servers : CloseDone(s)
  \/ Tick
  \/ NetChange
  \/ \E c \in Calls : Revoke(c)

Spec == Init /\ [][Next]_vars

\* ------------------------------------------------- save, then load
\* saveTokenToFile and loadTokenFromFile applied to every record of a bounded
\* set: each field present or not, expires_at as the Date the OAuth client
\* produces or as the string the declared type asks for.
Expiries ==
  {NoExp} \cup {[kind |-> k, t |-> t] : k \in {"date", "string"}, t \in 0..MaxTime}
Records == {Rec(a, r, e) : a \in {NULL} \cup Tokens, r \in Tokens, e \in Expiries}

RoundTripInit ==
  /\ accessToken = NULL
  /\ tokenData \in Records
  /\ oauthServer = NULL
  /\ tokenFile \in InitFiles
  /\ configured = TRUE
  /\ srv = [s \in Servers |-> NoServer]
  /\ browserOpened = FALSE
  /\ calls = [c \in Calls |-> Idle]
  /\ now = 1
  /\ netUp = TRUE
  /\ revoked = {}
  /\ issued = 1
  /\ reqs = 0
  /\ termFailed = FALSE
  /\ ev = Ev0("none")

\* Lines 73-84 applied to the record held in tokenData; `good` keeps
\* whether the write succeeded.
SaveTokenToFile ==
  /\ calls[1].pc = "idle"
  /\ \E ok \in BOOLEAN :
       /\ tokenFile' = SaveResult(tokenData, ok)
       /\ calls' = [calls EXCEPT ![1] =
            [Idle EXCEPT !.op = "roundtrip", !.pc = "saved", !.good = ok]]
  /\ ev' = Quiet
  /\ UNCHANGED <<accessToken, tokenData, oauthServer, srv, browserOpened,
                 envVars, issued, reqs, termFailed>>

\* Lines 90-105 applied to the file as the save left it; `rec` keeps the
\* value returned and `found` whether the read succeeded.
LoadTokenFromFile ==
  /\ calls[1].pc = "saved"
  /\ \E readOk \in BOOLEAN :
       calls' = [calls EXCEPT ![1].pc = "loaded", ![1].found = readOk,
                   ![1].rec = LoadResult(tokenFile.kind # "missing", readOk)]
  /\ ev' = Quiet
  /\ UNCHANGED <<tokenVars, oauthServer, srv, browserOpened, envVars, issued,
                 reqs, termFailed>>

RoundTripNext == SaveTokenToFile \/ LoadTokenFromFile

RoundTripSpec == RoundTripInit /\ [][RoundTripNext]_vars

\* What the runtime and the provider guarantee: a request to the token
\* endpoint is answered and its continuation runs, a write completes, the
\* outcome of listen() is delivered and a closing listener emits 'close'.
\* Nothing obliges a user to send a callback or a caller to call.
Fairness ==
  /\ \A c \in Calls : /\ WF_vars(ServeExchange(c))
                      /\ WF_vars(CbExchangeDone(c))
                      /\ WF_vars(CbSaved(c))
  /\ \A s \in Servers : /\ WF_vars(BindOk(s) \/ BindFail(s))
                        /\ WF_vars(CloseDone(s))

\* A first run: client configured, no token file yet.  The listener never
\* reads the file, so its flows are the same from every initial file.
FirstRun == Init /\ configured /\ tokenFile = NoFile

FairSpec == FirstRun /\ [][Next]_vars /\ Fairness

TypeOK ==
  /\ accessToken \in {NULL} \cup Tokens
  /\ oauthServer \in {NULL} \cup Servers
  /\ now \in 1..MaxTime
  /\ reqs \in 0..MaxReqs
  /\ issued \in Tokens

\* ================================================================ claims

\* A getAccessToken() call was made in the step that led here: it returned
\* from its synchronous stretch, or it suspended on a refresh request.
GetCalled == ev.op = "getRefresh" \/ (ev.op = "getReturn" /\ ev.nref = 0)

\* C1: a transient (network-level) refresh failure in getAccessToken() or
\* initializeAuth() does not clear the in-memory record: when such a call
\* ends, the access token and the token record are still held.
C1_TransientKeepsRecord ==
  (ev.op \in {"getReturn", "initDone"} /\ ev.out = "transient")
    => (accessToken # NULL /\ tokenData # NullData)

\* C2: once a refresh has failed terminally, every getAccessToken() call
\* returns not-available until a callback's code exchange succeeds.
C2_NoTokenAfterTerminalFailure ==
  (ev.op = "getReturn" /\ termFailed) => ev.ret = NULL

\* The record in memory is a complete record whose expiry is in the future.
FreshRecord ==
  /\ tokenData # NullData
  /\ tokenData.access_token # NULL
  /\ tokenData.expires_at.kind # "absent"
  /\ tokenData.expires_at.t > now

\* C3: getAccessToken() on a complete record whose expiry is in the future
\* returns the stored access token at once and changes nothing: no request
\* is issued, the file is not written, the in-memory state stays as it is.
C3_UnexpiredReturnsStored ==
  [][(GetCalled' /\ FreshRecord)
       => /\ ev'.op = "getReturn"
          /\ ev'.ret = tokenData.access_token
          /\ ev'.ret = accessToken
          /\ UNCHANGED <<accessToken, tokenData, tokenFile, calls, reqs, issued>>]_vars

C3_Witness ==
  /\ ev.op = "getReturn" /\ ev.nref = 0 /\ ev.ret # NULL
  /\ FreshRecord
  /\ ev.ret = tokenData.access_token

C5_RefreshedTokenReturned ==
  (ev.op = "getReturn" /\ ev.out = "ok")
    => /\ ev.ret = ev.tok
       /\ tokenData # NullData
       /\ tokenData.access_token = ev.tok
       /\ ev.wrote => /\ tokenFile.kind = "json"
                      /\ tokenFile.rec.access_token = ev.tok
                      /\ tokenFile.rec.expires_at.t = tokenData.expires_at.t

\* C6: startAuthorizationFlow() with a listener instance present, or with
\* the client id or secret missing, changes nothing: no listener is created,
\* no browser is opened, the instance reference and the token state stay.
C6_StartIsNoOp ==
  [][(ev'.op = "start" /\ (oauthServer # NULL \/ ~configured))
       => UNCHANGED <<oauthServer, srv, browserOpened, accessToken, tokenData,
                      tokenFile, calls>>]_vars

C6_Witness ==
  /\ ev.op = "start"
  /\ oauthServer # NULL
  /\ srv[oauthServer].state = "listening"
  /\ Cardinality({s \in Servers : srv[s].state # "none"}) = 1

\* C7: every listener that has received a /callback request or has failed
\* to bind eventually is stopped (closed, or never bound) and is no longer
\* what the instance reference refers to.
C7_FlowReachesStopped ==
  \A s \in Servers :
    (srv[s].handled > 0 \/ srv[s].state = "failed")
      ~> (srv[s].state \in {"closed", "failed"} /\ oauthServer # s)

C7_Witness ==
  /\ srv[1].state = "failed"
  /\ srv[2].state = "closed" /\ srv[2].handled > 0
  /\ oauthServer = NULL
  /\ accessToken # NULL

\* C8: a listener handles at most one /callback request in its lifetime.
C8_OneCallbackPerListener ==
  \A s \in Servers : srv[s].handled <= 1

\* A step of a callback handler whose exchange has not succeeded: the
\* request comes in, the provider answers, the rejection is handled.
CbStepUnsuccessful(c) ==
  /\ calls'[c] # calls[c]
  /\ calls[c].op = "cb" \/ calls'[c].op = "cb"
  /\ calls[c].out # "ok"

\* C9: a /callback request whose exchange fails is answered with 500, and no
\* step of its handler changes the access token, the token record or the
\* token file.
C9_ExchangeFailureKeepsToken ==
  [][\A c \in Calls :
       CbStepUnsuccessful(c)
         => /\ UNCHANGED <<accessToken, tokenData, tokenFile>>
            /\ calls'[c].op = "idle" => (ev'.op = "cbDone" /\ ev'.status = 500)]_vars

C9_Witness ==
  /\ ev.op = "cbDone" /\ ev.status = 500
  /\ accessToken # NULL /\ tokenData # NullData
  /\ tokenFile.kind = "json"

\* C10: a /callback request without a code is answered with 400, starts no
\* exchange, leaves the token state and the file alone, and leaves the
\* listener that received it closed to new requests with the instance
\* reference cleared.
C10_MissingCode ==
  [][ev'.op = "cbNoCode"
       => /\ ev'.status = 400
          /\ UNCHANGED <<accessToken, tokenData, tokenFile, calls, reqs, issued>>
          /\ oauthServer' = NULL
          /\ srv'[ev'.who].state \in {"closing", "closed"}]_vars

C10_Witness ==
  /\ ev.op = "cbNoCode" /\ ev.status = 400
  /\ oauthServer = NULL
  /\ srv[ev.who].state = "closing"
  /\ accessToken # NULL

\* C11: at every suspension point the in-memory token state is fully
\* present or fully absent: accessToken is null exactly when tokenData is
\* null, and when both are held accessToken is the record's access_token.
C11_NoPartialState ==
  /\ (accessToken = NULL) <=> (tokenData = NullData)
  /\ tokenData # NullData => accessToken = tokenData.access_token

\* C12: when initializeAuth() completes, the in-memory state is absent if
\* the load gave nothing (no file, unreadable, unparsable), the loaded record
\* if that is complete and not expired, and the refreshed record, written to
\* the file when the write went through, if it was expired and the refresh
\* succeeded.
C12_InitializeResult ==
  ev.op = "initDone" =>
    /\ ev.load = "null" => (accessToken = NULL /\ tokenData = NullData)
    /\ (ev.load = "record" /\ ev.out = "none" /\ tokenFile.rec.access_token # NULL)
         => (tokenData = tokenFile.rec /\ accessToken = tokenData.access_token)
    /\ ev.out = "ok"
         => /\ accessToken = ev.tok
            /\ tokenData # NullData
            /\ tokenData.access_token = ev.tok
            /\ ev.wrote => (tokenFile.kind = "json"
                            /\ tokenFile.rec.access_token = ev.tok)

\* C13: a step that installs a new record from the OAuth client (exchange or
\* refresh) leaves its operation about to save that very record; the
\* operation ends only through that save attempt, which writes that record
\* or, failing, writes nothing, and in both cases leaves accessToken and
\* tokenData alone and returns the same result.
C13_SaveFollowsInstall ==
  [][/\ (tokenData' # tokenData /\ tokenData' # NullData
           /\ tokenData'.expires_at.kind = "date")
          => \E c \in Calls : /\ calls[c].pc # "saving"
                              /\ calls'[c].pc = "saving"
                              /\ calls'[c].rec = tokenData'
     /\ \A c \in Calls :
          (calls[c].pc = "saving" /\ calls'[c] # calls[c])
            => /\ calls'[c] = Idle
               /\ tokenFile' = IF ev'.wrote THEN Stringify(calls[c].rec) ELSE tokenFile
               /\ UNCHANGED <<accessToken, tokenData>>
               /\ calls[c].op = "get" => ev'.ret = accessToken]_vars

C13_Witness ==
  /\ ev.op = "getReturn" /\ ev.out = "ok" /\ ~ev.wrote
  /\ ev.ret = ev.tok
  /\ tokenData # NullData /\ tokenData.access_token = ev.tok
  /\ tokenFile.kind = "json" /\ tokenFile.rec.access_token # ev.tok

\* The continuation of a suspended invocation.
CallStep(c) ==
  \/ GetRefreshDone(c) \/ GetSaved(c)
  \/ InitLoaded(c) \/ InitRefreshDone(c) \/ InitSaved(c)
  \/ CbExchangeDone(c) \/ CbSaved(c)

\* C14: no operation ends in an uncaught error: whatever its request, read
\* or write came to, a suspended invocation has a continuation that runs on
\* (once the pending tick work is done), getAccessToken() returns a token or
\* null, and a callback is answered with 200, 400 or 500.
C14_OperationsComplete ==
  /\ \A c \in Calls :
       (calls[c].op # "idle" /\ ~Pending(c) /\ NoTickPending) => ENABLED CallStep(c)
  /\ ev.op = "getReturn" => ev.ret \in {NULL} \cup Tokens
  /\ ev.op \in {"cbDone", "cbNoCode"} => ev.status \in {200, 400, 500}

C14_Witness ==
  /\ ev.op = "getReturn" /\ ev.out = "terminal" /\ ev.ret = NULL
  /\ srv[1].state = "failed"
  /\ tokenFile = BadFile

\* A save that wrote the file was followed by a load that read it.
RoundTripDone ==
  calls[1].op = "roundtrip" /\ calls[1].pc = "loaded" /\ calls[1].good /\ calls[1].found

Bound == {s \in Servers : srv[s].state \in {"binding", "listening"}}

\* At most one listener is bound or binding, and it is the one oauthServer
\* refers to.
OneListener ==
  /\ Cardinality(Bound) <= 1
  /\ \A s \in Bound : oauthServer = s

\* A startAuthorizationFlow() call that passes its checks sets the reference
\* in that same step, to the listener it created.
StartSetsReference ==
  (ev'.op = "start" /\ ~AlreadyRunning /\ configured)
    => (oauthServer' # NULL /\ srv[oauthServer'].state = "none"
        /\ srv'[oauthServer'].state = "binding")

\* C16: in every interleaving at most one listener is bound or binding at
\* any time; the reference is set in the step in which the start passes its
\* presence check; and a listener that is bound or binding is always the
\* one the reference names, so no second start can bind beside it.
C16_OneListener == []OneListener /\ [][StartSetsReference]_vars

C16_Witness ==
  /\ ev.op = "start"
  /\ srv[1].state = "closing"
  /\ srv[2].state = "binding"
  /\ oauthServer = 2

\* C17: token mutations never run in parallel: at most one refresh request
\* with a given refresh token is on its way to the provider at any time.
C17_OneRefreshPerToken ==
  \A c, d \in Calls :
    (c # d /\ Pending(c) /\ Pending(d)
       /\ calls[c].pc = "refreshing" /\ calls[d].pc = "refreshing")
      => calls[c].rt # calls[d].rt

\* C18: the record in memory goes from absent to present only in the step
\* of a callback handler whose exchange succeeded or in the step of
\* initializeAuth() that loads the file; and getAccessToken() called with
\* no record in memory returns null and changes nothing: no request, no
\* store access, no state.
C18_RecordCreatedOnlyByExchangeOrLoad ==
  [][/\ (tokenData = NullData /\ tokenData' # NullData)
          => \E c \in Calls :
               \/ /\ calls[c].op = "cb" /\ calls[c].pc = "exchanging"
                  /\ calls[c].out = "ok" /\ calls'[c].pc = "saving"
               \/ /\ calls[c].op = "init" /\ calls[c].pc = "loading"
                  /\ calls'[c].pc # "loading"
     /\ (tokenData = NullData /\ GetCalled')
          => /\ ev'.op = "getReturn" /\ ev'.ret = NULL
             /\ UNCHANGED <<accessToken, tokenData, oauthServer, tokenFile,
                            configured, srv, browserOpened, calls, now, netUp,
                            revoked, issued, reqs, termFailed>>]_vars

\* C19: a record installed by a successful callback is neither cleared nor
\* overwritten by the outcome of a refresh that was started on an earlier
\* record: while the callback that installed the record in memory is still
\* saving it, the continuation of such a refresh leaves the record and the
\* access token as they are.
C19_CallbackRecordSurvivesOldRefresh ==
  [][\A c, d \in Calls :
       (/\ calls[d].op = "cb" /\ calls[d].pc = "saving"
        /\ tokenData = calls[d].rec
        /\ calls[c].pc = "refreshing" /\ calls[c].rt # tokenData.refresh_token
        /\ calls'[c].pc # "refreshing")
         => (tokenData' = tokenData /\ accessToken' = accessToken)]_vars

\* C20: the teardown at the end of a callback handler closes only the
\* listener that received the callback: the step that answers the request
\* (200 or 500) leaves every other listener as it was, neither closing it
\* nor arming the clearing of a reference to it.
C20_TeardownClosesOwnListener ==
  [][ev'.op = "cbDone"
       => \A s \in Servers : s # ev'.who => srv'[s] = srv[s]]_vars

====
